---- MODULE Spec2Model ----
(***************************************************************************)
(* Model of esmvalcore/preprocessor/_weighting.py: weighting of a cube by   *)
(* its land or sea area fraction taken from fx files.                       *)
(*                                                                          *)
(* An array is a record [shape, data]: shape is the tuple of dimension      *)
(* sizes, data maps every index tuple of that shape to a number.  Numbers   *)
(* are Python floats, modelled as fixed-point integers counting hundredths  *)
(* (Fix(1) is 1.0); the inputs are chosen so that every product and         *)
(* quotient the code forms is exact in that representation.                 *)
(***************************************************************************)
EXTENDS Integers, Sequences, FiniteSets, TLC

VARIABLES cube, fx_files, area_type, strict,
          pc, i, errors, land_fraction, loaded, raised, log, returned,
          cube0, shape_1, shape_2, broadcastable

vars == <<cube, fx_files, area_type, strict,
          pc, i, errors, land_fraction, loaded, raised, log, returned,
          cube0, shape_1, shape_2, broadcastable>>

\* Bounds of the model.
MaxRefs == 2   \* entries of the fx_files dictionary
MaxDim == 4    \* largest dimension size tried by the shape check
MaxRank == 2   \* longest shape tried by the shape check

----------------------------------------------------------------------------
\* Numbers.

\* The float n.0 in hundredths.
Fix(n) == n * 100

\* Python float division a / b.
FDiv(a, b) == (a * Fix(1)) \div b

\* Python float product a * b.
FMul(a, b) == (a * b) \div Fix(1)

\* Python float difference a - b.
FSub(a, b) == a - b

----------------------------------------------------------------------------
\* Shapes and arrays (numpy / dask semantics used by the module).

Min(a, b) == IF a < b THEN a ELSE b
Max(a, b) == IF a < b THEN b ELSE a

\* shape[::-1]
Reversed(shape) == [k \in 1..Len(shape) |-> shape[Len(shape) + 1 - k]]

\* zip(a, b): pairs up to the shorter of the two.
Zip(a, b) == [k \in 1..Min(Len(a), Len(b)) |-> <<a[k], b[k]>>]

\* A bug: only equal dimensions or a 1 on the fx side are accepted.
ShapeIsBroadcastable_m(shape_a, shape_b) ==
    \A k \in DOMAIN Zip(Reversed(shape_a), Reversed(shape_b)) :
        LET m == Zip(Reversed(shape_a), Reversed(shape_b))[k][1]
            n == Zip(Reversed(shape_a), Reversed(shape_b))[k][2]
        IN  (m = n) \/ (m = 1)

\* _shape_is_broadcastable(shape_1, shape_2)
ShapeIsBroadcastable(shape_a, shape_b) ==
    \A k \in DOMAIN Zip(Reversed(shape_a), Reversed(shape_b)) :
        LET m == Zip(Reversed(shape_a), Reversed(shape_b))[k][1]
            n == Zip(Reversed(shape_a), Reversed(shape_b))[k][2]
        IN  (m = n) \/ (m = 1) \/ (n = 1)

\* Dimension k (counted from the left of a rank-n result) of a shape that is
\* padded on the left with ones.
PadDim(shape, n, k) ==
    IF k <= n - Len(shape) THEN 1 ELSE shape[k - (n - Len(shape))]

\* Shape of the elementwise result of two broadcastable arrays.
BroadcastShape(sa, sb) ==
    LET n == Max(Len(sa), Len(sb))
    IN  [k \in 1..n |-> Max(PadDim(sa, n, k), PadDim(sb, n, k))]

\* The largest dimension of a shape (1 for the empty shape).
MaxOf(shape) ==
    IF Len(shape) = 0 THEN 1
    ELSE CHOOSE m \in {shape[k] : k \in 1..Len(shape)} :
             \A k \in 1..Len(shape) : shape[k] <= m

\* All index tuples of an array of the given shape (1-based).
Indices(shape) ==
    {idx \in [1..Len(shape) -> 1..MaxOf(shape)] :
        \A k \in 1..Len(shape) : idx[k] <= shape[k]}

\* The index into an array of shape `shape` that a result index idx reads.
Project(idx, shape) ==
    [k \in 1..Len(shape) |->
        IF shape[k] = 1 THEN 1 ELSE idx[k + (Len(idx) - Len(shape))]]

\* a * b, elementwise with broadcasting.
ArrMul(a, b) ==
    LET s == BroadcastShape(a.shape, b.shape)
    IN  [shape |-> s,
         data  |-> [idx \in Indices(s) |->
                       FMul(a.data[Project(idx, a.shape)],
                            b.data[Project(idx, b.shape)])]]

\* a / c for a scalar c.
ArrDivScalar(a, c) ==
    [shape |-> a.shape, data |-> [idx \in Indices(a.shape) |-> FDiv(a.data[idx], c)]]

\* c - a for a scalar c.
ScalarSubArr(c, a) ==
    [shape |-> a.shape, data |-> [idx \in Indices(a.shape) |-> FSub(c, a.data[idx])]]

\* Python's None as a value of land_fraction.
None == [shape |-> <<>>, data |-> <<>>, none |-> TRUE]

IsNone(x) == "none" \in DOMAIN x

----------------------------------------------------------------------------
\* Inputs.

\* Keys of the fx_files dictionary: the two supported variables and one
\* the module cannot use.
FxVars == {"sftlf", "sftof", "areacella"}

\* Values of the fx_files dictionary: "" is a file that was not found.
FxPaths == {"", "half.nc", "len4.nc", "grid.nc", "row.nc"}

\* iris.load_cube(fx_path): the fx files on disk, holding percentages.
LoadCube(fx_path) ==
    CASE fx_path = "half.nc" ->
           [shape |-> <<1, 1>>,
            data  |-> [idx \in Indices(<<1, 1>>) |-> Fix(50)]]
      [] fx_path = "len4.nc" ->
           [shape |-> <<4>>,
            data  |-> [idx \in Indices(<<4>>) |-> Fix(25 * idx[1])]]
      [] fx_path = "grid.nc" ->
           [shape |-> <<2, 3>>,
            data  |-> [idx \in Indices(<<2, 3>>) |->
                          Fix(10 * (3 * (idx[1] - 1) + idx[2]))]]
      [] fx_path = "row.nc" ->
           [shape |-> <<3>>,
            data  |-> [idx \in Indices(<<3>>) |-> Fix(20 * idx[1])]]

\* Shapes of the cubes to be weighted.
CubeShapes == {<<>>, <<3>>, <<1, 3>>, <<2, 3>>}

\* A cube of ones and a cube whose values differ from cell to cell.
Ones(shape) == [shape |-> shape, data |-> [idx \in Indices(shape) |-> Fix(1)]]
Ramp(shape) ==
    [shape |-> shape,
     data  |-> [idx \in Indices(shape) |->
                   Fix(1 + (IF Len(shape) >= 1 THEN idx[Len(shape)] ELSE 0)
                         + (IF Len(shape) >= 2 THEN 3 * idx[1] ELSE 0))]]

\* The cubes passed to weighting_landsea_fraction: a name and the array
\* core_data() returns; cube.shape is the shape of that array.
Cubes ==
    {[var_name |-> "nbp", core |-> a] :
        a \in {Ones(s) : s \in CubeShapes} \cup {Ramp(s) : s \in CubeShapes}}

\* fx_files: a dict, i.e. an ordered sequence of (key, value) with distinct keys.
FxFiles ==
    {m \in UNION {[1..n -> FxVars \X FxPaths] : n \in 0..MaxRefs} :
        \A a, b \in DOMAIN m : a # b => m[a][1] # m[b][1]}

AreaTypes == {"land", "sea", "ocean"}

\* Shapes given to the shape check when it is called on its own.
Shapes == UNION {[1..n -> 1..MaxDim] : n \in 0..MaxRank}

----------------------------------------------------------------------------
\* Diagnostics appended to `errors`.

NoFxGiven == <<"No fx files given.">>
NotFound(fx_var) == <<"File not found.", fx_var>>
NotBroadcastable(fx_var, fx_shape, var_name, shape) ==
    <<"not broadcastable to cube", fx_var, fx_shape, var_name, shape>>
CannotCalculate(fx_var) == <<"Cannot calculate land fraction", fx_var>>

----------------------------------------------------------------------------
\* State after construction: the arguments of one call, nothing done yet.

InitWeighting ==
    /\ cube \in Cubes
    /\ cube0 = cube
    /\ fx_files \in FxFiles
    /\ area_type \in AreaTypes
    /\ strict \in BOOLEAN
    /\ pc = "call"
    /\ i = 0
    /\ errors = <<>>
    /\ land_fraction = None
    /\ loaded = <<>>
    /\ raised = "none"
    /\ log = <<>>
    /\ returned = FALSE
    /\ shape_1 = <<>>
    /\ shape_2 = <<>>
    /\ broadcastable = FALSE

\* A direct call of _shape_is_broadcastable.
InitShapeCheck ==
    /\ shape_1 \in Shapes
    /\ shape_2 \in Shapes
    /\ broadcastable = FALSE
    /\ pc = "shape_call"
    /\ cube = [var_name |-> "nbp", core |-> Ones(<<>>)]
    /\ cube0 = cube
    /\ fx_files = <<>>
    /\ area_type = "land"
    /\ strict = FALSE
    /\ i = 0
    /\ errors = <<>>
    /\ land_fraction = None
    /\ loaded = <<>>
    /\ raised = "none"
    /\ log = <<>>
    /\ returned = FALSE

Init == InitWeighting \/ InitShapeCheck

----------------------------------------------------------------------------
\* weighting_landsea_fraction, lines 84-87.

inputs == <<cube, cube0, fx_files, area_type, strict, shape_1, shape_2, broadcastable>>

\* A bug: the area type is not checked at all.
CheckAreaType_m ==
    /\ pc = "call"
    /\ pc' = "get_land_fraction"
    /\ UNCHANGED <<raised, i, errors, land_fraction, loaded, log, returned, inputs>>

\* if area_type not in ('land', 'sea'): raise TypeError
CheckAreaType ==
    /\ pc = "call"
    /\ IF area_type \notin {"land", "sea"}
       THEN /\ raised' = "TypeError"
            /\ pc' = "raised"
       ELSE /\ raised' = raised
            /\ pc' = "get_land_fraction"
    /\ UNCHANGED <<i, errors, land_fraction, loaded, log, returned, inputs>>

----------------------------------------------------------------------------
\* _get_land_fraction, lines 10-37.

\* A bug: an empty dictionary leaves no diagnostic.
EnterGetLandFraction_m ==
    /\ pc = "get_land_fraction"
    /\ errors' = <<>>
    /\ i' = 1
    /\ pc' = "loop"
    /\ UNCHANGED <<land_fraction, loaded, raised, log, returned, inputs>>

\* errors = []; if not fx_files: errors.append("No fx files given.")
EnterGetLandFraction ==
    /\ pc = "get_land_fraction"
    /\ errors' = IF Len(fx_files) = 0 THEN <<NoFxGiven>> ELSE <<>>
    /\ i' = 1
    /\ pc' = "loop"
    /\ UNCHANGED <<land_fraction, loaded, raised, log, returned, inputs>>

fx_var == fx_files[i][1]
fx_path == fx_files[i][2]
fx_cube == LoadCube(fx_path)

\* if not fx_path: errors.append(...); continue
LoopFileNotFound ==
    /\ pc = "loop"
    /\ i <= Len(fx_files)
    /\ fx_path = ""
    /\ errors' = Append(errors, NotFound(fx_var))
    /\ i' = i + 1
    /\ UNCHANGED <<pc, land_fraction, loaded, raised, log, returned, inputs>>

\* fx_cube = iris.load_cube(fx_path); shape check fails: append, continue
LoopNotBroadcastable ==
    /\ pc = "loop"
    /\ i <= Len(fx_files)
    /\ fx_path # ""
    /\ ~ShapeIsBroadcastable(fx_cube.shape, cube.core.shape)
    /\ loaded' = Append(loaded, fx_var)
    /\ errors' = Append(errors, NotBroadcastable(fx_var, fx_cube.shape,
                                                 cube.var_name, cube.core.shape))
    /\ i' = i + 1
    /\ UNCHANGED <<pc, land_fraction, raised, log, returned, inputs>>

\* A bug: sftlf is treated as a sea fraction.
LandFractionFromSftlf_m(fx_data) == ScalarSubArr(Fix(1), ArrDivScalar(fx_data, Fix(100)))

\* land_fraction = fx_cube.core_data() / 100.0
LandFractionFromSftlf(fx_data) == ArrDivScalar(fx_data, Fix(100))

\* land_fraction = 1.0 - fx_cube.core_data() / 100.0
LandFractionFromSftof(fx_data) == ScalarSubArr(Fix(1), ArrDivScalar(fx_data, Fix(100)))

\* A bug: the break is missing, the loop goes on to the next entry.
LoopSftlf_m ==
    /\ pc = "loop"
    /\ i <= Len(fx_files)
    /\ fx_path # ""
    /\ ShapeIsBroadcastable(fx_cube.shape, cube.core.shape)
    /\ fx_var = "sftlf"
    /\ loaded' = Append(loaded, fx_var)
    /\ land_fraction' = LandFractionFromSftlf(fx_cube)
    /\ i' = i + 1
    /\ UNCHANGED <<pc, errors, raised, log, returned, inputs>>

\* if fx_var == 'sftlf': ...; break
LoopSftlf ==
    /\ pc = "loop"
    /\ i <= Len(fx_files)
    /\ fx_path # ""
    /\ ShapeIsBroadcastable(fx_cube.shape, cube.core.shape)
    /\ fx_var = "sftlf"
    /\ loaded' = Append(loaded, fx_var)
    /\ land_fraction' = LandFractionFromSftlf(fx_cube)
    /\ pc' = "resolved"
    /\ UNCHANGED <<i, errors, raised, log, returned, inputs>>

\* if fx_var == 'sftof': ...; break
LoopSftof ==
    /\ pc = "loop"
    /\ i <= Len(fx_files)
    /\ fx_path # ""
    /\ ShapeIsBroadcastable(fx_cube.shape, cube.core.shape)
    /\ fx_var # "sftlf"
    /\ fx_var = "sftof"
    /\ loaded' = Append(loaded, fx_var)
    /\ land_fraction' = LandFractionFromSftof(fx_cube)
    /\ pc' = "resolved"
    /\ UNCHANGED <<i, errors, raised, log, returned, inputs>>

\* A bug: a variable that is neither sftlf nor sftof is used as a land fraction.
LoopUnsupported_m ==
    /\ pc = "loop"
    /\ i <= Len(fx_files)
    /\ fx_path # ""
    /\ ShapeIsBroadcastable(fx_cube.shape, cube.core.shape)
    /\ fx_var \notin {"sftlf", "sftof"}
    /\ loaded' = Append(loaded, fx_var)
    /\ land_fraction' = LandFractionFromSftlf(fx_cube)
    /\ pc' = "resolved"
    /\ UNCHANGED <<i, errors, raised, log, returned, inputs>>

\* errors.append("Cannot calculate land fraction from ..."), next entry
LoopUnsupported ==
    /\ pc = "loop"
    /\ i <= Len(fx_files)
    /\ fx_path # ""
    /\ ShapeIsBroadcastable(fx_cube.shape, cube.core.shape)
    /\ fx_var \notin {"sftlf", "sftof"}
    /\ loaded' = Append(loaded, fx_var)
    /\ errors' = Append(errors, CannotCalculate(fx_var))
    /\ i' = i + 1
    /\ UNCHANGED <<pc, land_fraction, raised, log, returned, inputs>>

\* for ... else: land_fraction = None; return (land_fraction, errors)
LoopElse ==
    /\ pc = "loop"
    /\ i > Len(fx_files)
    /\ land_fraction' = None
    /\ pc' = "resolved"
    /\ UNCHANGED <<i, errors, loaded, raised, log, returned, inputs>>

----------------------------------------------------------------------------
\* weighting_landsea_fraction, lines 88-103.

\* A bug: the error is raised whatever `strict` says.
RaiseValueError_m ==
    /\ pc = "resolved"
    /\ IsNone(land_fraction)
    /\ raised' = "ValueError"
    /\ pc' = "raised"
    /\ UNCHANGED <<i, errors, land_fraction, loaded, log, returned, inputs>>

\* if land_fraction is None: if strict: raise ValueError
RaiseValueError ==
    /\ pc = "resolved"
    /\ IsNone(land_fraction)
    /\ strict
    /\ raised' = "ValueError"
    /\ pc' = "raised"
    /\ UNCHANGED <<i, errors, land_fraction, loaded, log, returned, inputs>>

\* A bug: the cube is returned without the debug message.
LogAndReturn_m ==
    /\ pc = "resolved"
    /\ IsNone(land_fraction)
    /\ ~strict
    /\ returned' = TRUE
    /\ pc' = "done"
    /\ UNCHANGED <<i, errors, land_fraction, loaded, raised, log, inputs>>

\* logger.debug(...); return cube
LogAndReturn ==
    /\ pc = "resolved"
    /\ IsNone(land_fraction)
    /\ ~strict
    /\ log' = Append(log, <<"debug", cube.var_name, area_type, errors>>)
    /\ returned' = TRUE
    /\ pc' = "done"
    /\ UNCHANGED <<i, errors, land_fraction, loaded, raised, inputs>>

\* A bug: the sea branch weights with the land fraction.
Weighted_m(core_data, fraction, area) ==
    IF area = "land" THEN ArrMul(core_data, fraction)
    ELSE IF area = "sea" THEN ArrMul(core_data, fraction)
    ELSE core_data

\* core_data * land_fraction for 'land', core_data * (1.0 - land_fraction)
\* for 'sea': the array assigned to cube.data.
Weighted(core_data, fraction, area) ==
    IF area = "land" THEN ArrMul(core_data, fraction)
    ELSE IF area = "sea" THEN ArrMul(core_data, ScalarSubArr(Fix(1), fraction))
    ELSE core_data

\* core_data = cube.core_data(); cube.data = ...; return cube
ApplyWeighting ==
    /\ pc = "resolved"
    /\ ~IsNone(land_fraction)
    /\ cube' = [cube EXCEPT !.core = Weighted(cube.core, land_fraction, area_type)]
    /\ returned' = TRUE
    /\ pc' = "done"
    /\ UNCHANGED <<i, errors, land_fraction, loaded, raised, log,
                   cube0, fx_files, area_type, strict, shape_1, shape_2, broadcastable>>

----------------------------------------------------------------------------
\* _shape_is_broadcastable called on its own.

ShapeCheck ==
    /\ pc = "shape_call"
    /\ broadcastable' = ShapeIsBroadcastable(shape_1, shape_2)
    /\ pc' = "shape_done"
    /\ UNCHANGED <<cube, cube0, fx_files, area_type, strict, i, errors,
                   land_fraction, loaded, raised, log, returned, shape_1, shape_2>>

----------------------------------------------------------------------------

Next ==
    \/ CheckAreaType
    \/ EnterGetLandFraction
    \/ LoopFileNotFound
    \/ LoopNotBroadcastable
    \/ LoopSftlf
    \/ LoopSftof
    \/ LoopUnsupported
    \/ LoopElse
    \/ RaiseValueError
    \/ LogAndReturn
    \/ ApplyWeighting
    \/ ShapeCheck

Spec == Init /\ [][Next]_vars

----------------------------------------------------------------------------
\* Properties.

\* The broadcasting rule as documented: aligned at the rightmost dimension,
\* every overlapping pair of dimensions is equal or has a member equal to 1.
Compatible(sa, sb) ==
    \A k \in 1..Min(Len(sa), Len(sb)) :
        LET a == sa[Len(sa) + 1 - k]
            b == sb[Len(sb) + 1 - k]
        IN  a = b \/ a = 1 \/ b = 1

ValidArea == area_type \in {"land", "sea"}

\* Entry j of fx_files can give a land fraction for the cube of the call.
Valid(j) ==
    /\ fx_files[j][2] # ""
    /\ Compatible(LoadCube(fx_files[j][2]).shape, cube0.core.shape)
    /\ fx_files[j][1] \in {"sftlf", "sftof"}

AllFailed == \A j \in 1..Len(fx_files) : ~Valid(j)

\* The diagnostic entry j must leave when it is not valid.
Diagnostic(j) ==
    IF fx_files[j][2] = "" THEN NotFound(fx_files[j][1])
    ELSE IF ~Compatible(LoadCube(fx_files[j][2]).shape, cube0.core.shape)
         THEN NotBroadcastable(fx_files[j][1], LoadCube(fx_files[j][2]).shape,
                               cube0.var_name, cube0.core.shape)
         ELSE CannotCalculate(fx_files[j][1])

\* The keys of the first e entries of fx_files that have a file, in order.
KeysWithFile(e) ==
    LET withFile == SelectSeq(SubSeq(fx_files, 1, e), LAMBDA ent : ent[2] # "")
    IN  [k \in 1..Len(withFile) |-> withFile[k][1]]

\* _get_land_fraction has returned.
Resolved == pc \in {"resolved", "done"} \/ (pc = "raised" /\ raised = "ValueError")

\* The weighting was applied.
Applied == pc = "done" /\ ~IsNone(land_fraction)

\* The percentage (a whole number) the chosen fx cube holds for result cell idx.
Percent(idx) ==
    LET fx == LoadCube(fx_files[i][2])
    IN  fx.data[Project(idx, fx.shape)] \div Fix(1)

\* The weight in percent that the chosen variable and the area type fix.
Factor(idx) ==
    IF (fx_files[i][1] = "sftlf") = (area_type = "land")
    THEN Percent(idx) ELSE 100 - Percent(idx)

OtherArea == IF area_type = "land" THEN "sea" ELSE "land"

\* C1: an area_type other than 'land' or 'sea' raises TypeError before any
\* resolution work: nothing is loaded, no diagnostic is recorded, nothing is
\* logged and the cube's data is unchanged, whatever fx_files and strict are.
C1_InvalidAreaTypeRaisesFirst ==
    (~ValidArea /\ pc # "call") =>
        /\ pc = "raised"
        /\ raised = "TypeError"
        /\ loaded = <<>>
        /\ errors = <<>>
        /\ log = <<>>
        /\ ~returned
        /\ cube = cube0

C1_Witness ==
    /\ pc = "raised"
    /\ raised = "TypeError"
    /\ area_type = "ocean"
    /\ ~strict
    /\ Len(fx_files) = 2
    /\ Valid(1)

\* C2: with a valid area_type, ValueError is raised if and only if strict is
\* true and the resolution gave None; nothing is raised while candidates are
\* examined, however they fail; when the error is raised the cube's data is
\* unchanged.
C2_RaisesIffStrictAndAbsent ==
    ValidArea =>
        /\ (pc \in {"get_land_fraction", "loop", "resolved"} => raised = "none")
        /\ (pc \in {"raised", "done"} =>
                /\ raised \in {"none", "ValueError"}
                /\ (raised = "ValueError") <=> (strict /\ IsNone(land_fraction))
                /\ (raised = "ValueError") <=> (pc = "raised")
                /\ (raised = "ValueError" => cube = cube0 /\ ~returned))

C2_Witness ==
    /\ pc = "raised"
    /\ raised = "ValueError"
    /\ strict
    /\ Len(errors) = 2
    /\ errors[1] = NotFound("sftlf")
    /\ errors[2][1] = "not broadcastable to cube"

\* C3: with a valid area_type and strict false, when the resolution gave None
\* (empty dictionary or every candidate failed) nothing is raised, exactly one
\* debug message is logged, holding the cube's name, the area type and the
\* diagnostics, and the same cube is returned with data, shape and name as
\* before the call.
C3_NonStrictAbsentIsNoOp ==
    (ValidArea /\ ~strict /\ IsNone(land_fraction) /\ pc \in {"raised", "done"}) =>
        /\ pc = "done"
        /\ raised = "none"
        /\ log = << <<"debug", cube0.var_name, area_type, errors>> >>
        /\ returned
        /\ cube = cube0

C3_Witness ==
    /\ pc = "done"
    /\ ~strict
    /\ IsNone(land_fraction)
    /\ Len(fx_files) = 2
    /\ Len(log) = 1
    /\ Len(log[1][4]) = 2

\* C4: the land fraction is derived from the first entry, in dictionary
\* order, that has a file, a compatible shape and the key sftlf or sftof; the
\* loop stops at that entry, and no later entry is examined or loaded.
C4_FirstValidWins ==
    (Resolved /\ ~IsNone(land_fraction)) =>
        /\ i \in 1..Len(fx_files)
        /\ Valid(i)
        /\ \A j \in 1..(i - 1) : ~Valid(j)
        /\ LET fx == LoadCube(fx_files[i][2])
           IN  /\ land_fraction.shape = fx.shape
               /\ \A idx \in Indices(fx.shape) :
                      land_fraction.data[idx] =
                          IF fx_files[i][1] = "sftlf"
                          THEN fx.data[idx] \div 100
                          ELSE Fix(1) - fx.data[idx] \div 100
        /\ loaded = KeysWithFile(i)
        /\ Len(errors) = i - 1

C4_Witness ==
    /\ pc = "done"
    /\ fx_files = << <<"sftlf", "grid.nc">>, <<"sftof", "half.nc">> >>
    /\ cube0.core.shape = <<2, 3>>
    /\ land_fraction = ArrDivScalar(LoadCube("grid.nc"), Fix(100))
    /\ loaded = <<"sftlf">>

\* C5: whenever the weighting is applied, the shape of the cube's data after
\* the call is its shape before the call.
C5_ShapePreserved ==
    Applied => cube.core.shape = cube0.core.shape

\* C6 (as claimed): one call loads at most one fx file.
C6_AtMostOneLoad ==
    Len(loaded) <= 1

\* C6 (amended): one call loads the entries that have a file one after the
\* other in dictionary order, each at most once, and stops at the first valid
\* candidate: every load but the last is of a rejected candidate, so at most
\* one load yields a fraction and there are never more loads than files.
C6_LoadsUpToFirstValid ==
    \E e \in 0..Len(fx_files) :
        /\ loaded = KeysWithFile(e)
        /\ \A j \in 1..(e - 1) : ~Valid(j)
        /\ (Resolved /\ IsNone(land_fraction)) => e = Len(fx_files)

C6_Witness ==
    /\ pc = "done"
    /\ ~IsNone(land_fraction)
    /\ Len(loaded) = 2
    /\ fx_files[1][1] = "areacella"
    /\ Valid(2)

\* C7: the resolution gives None exactly when the dictionary is empty or
\* every candidate failed; then, for a non-empty dictionary, errors holds
\* exactly one diagnostic per entry, in dictionary order, and for an empty one
\* exactly the diagnostic "No fx files given.".
C7_AbsentIffAllFailed ==
    Resolved =>
        /\ IsNone(land_fraction) <=> AllFailed
        /\ (IsNone(land_fraction) /\ Len(fx_files) > 0) =>
               /\ Len(errors) = Len(fx_files)
               /\ \A j \in 1..Len(fx_files) : errors[j] = Diagnostic(j)
        /\ Len(fx_files) = 0 => errors = <<NoFxGiven>>

C7_Witness ==
    /\ pc = "resolved"
    /\ IsNone(land_fraction)
    /\ Len(fx_files) = 2
    /\ errors = <<CannotCalculate("areacella"), NotFound("sftof")>>

\* C8: for the same cube and the same land fraction, the data weighted with
\* 'land' plus the data weighted with 'sea' is the original data, cell by cell.
C8_LandPlusSeaIsOriginal ==
    Applied =>
        LET other == Weighted(cube0.core, land_fraction, OtherArea)
        IN  /\ other.shape = cube.core.shape
            /\ \A idx \in Indices(cube.core.shape) :
                   cube.core.data[idx] + other.data[idx] =
                       cube0.core.data[Project(idx, cube0.core.shape)]

C8_Witness ==
    /\ Applied
    /\ area_type = "sea"
    /\ fx_files[i] = <<"sftof", "grid.nc">>
    /\ cube0.core = Ramp(<<2, 3>>)
    /\ cube.core.data[<<2, 3>>] = Fix(6)

\* C9: every cell of the weighted data is the original cell times the factor
\* fixed by the chosen variable and the area type: p/100 for sftlf/land and
\* sftof/sea, 1 - p/100 for sftlf/sea and sftof/land; a (1,1) sftlf file
\* holding 50 halves every cell of a (2,3) cube under 'land'.
C9_FactorByVariableAndArea ==
    Applied =>
        /\ \A idx \in Indices(cube.core.shape) :
               cube.core.data[idx] * 100 =
                   cube0.core.data[Project(idx, cube0.core.shape)] * Factor(idx)
        /\ (fx_files[i] = <<"sftlf", "half.nc">> /\ area_type = "land"
                /\ cube0.core.shape = <<2, 3>>) =>
               /\ cube.core.shape = <<2, 3>>
               /\ \A idx \in Indices(<<2, 3>>) :
                      2 * cube.core.data[idx] = cube0.core.data[idx]

C9_Witness ==
    /\ Applied
    /\ fx_files[i] = <<"sftlf", "half.nc">>
    /\ area_type = "land"
    /\ cube0.core = Ramp(<<2, 3>>)
    /\ cube.core.data[<<1, 1>>] = 250
    /\ cube.core.data[<<2, 3>>] = Fix(5)

\* C10: the shape check accepts a pair of shapes exactly when, aligned at the
\* rightmost dimension, every overlapping pair of dimensions is equal or has
\* a member equal to 1; (1,1) is accepted against (2,3), (4,) is rejected
\* against (2,3); a candidate whose shape is rejected leaves a diagnostic
\* naming both shapes and the loop goes on to the next entry.
C10_ShapeCheckIsRightAligned ==
    /\ pc = "shape_done" =>
           /\ broadcastable <=> Compatible(shape_1, shape_2)
           /\ (shape_1 = <<1, 1>> /\ shape_2 = <<2, 3>>) => broadcastable
           /\ (shape_1 = <<4>> /\ shape_2 = <<2, 3>>) => ~broadcastable
    /\ pc \in {"loop", "resolved", "done"} =>
           \A j \in 1..Len(fx_files) :
               (j < i /\ fx_files[j][2] # ""
                  /\ ~Compatible(LoadCube(fx_files[j][2]).shape, cube0.core.shape)) =>
                   /\ Len(errors) >= j
                   /\ errors[j] = NotBroadcastable(fx_files[j][1],
                                                   LoadCube(fx_files[j][2]).shape,
                                                   cube0.var_name, cube0.core.shape)

C10_Witness ==
    /\ pc = "loop"
    /\ i = 2
    /\ cube0.core.shape = <<2, 3>>
    /\ fx_files[1] = <<"sftlf", "len4.nc">>
    /\ errors = <<NotBroadcastable("sftlf", <<4>>, "nbp", <<2, 3>>)>>
    /\ loaded = <<"sftlf">>

====
